---- MODULE Spec2Model ----
(***************************************************************************)
(* Model of src/agent/my_agent.py: the batch orchestrator                  *)
(* generate_all_answers (chunked thread pool, completion loop, autosave    *)
(* under save_lock, progress accounting) and the worker code it runs in    *)
(* each task: run_agent -> ask_solver -> call_model_chat_completions and   *)
(* extract_answer.                                                         *)
(*                                                                         *)
(* Texts are sequences of one-character strings.  The literal marker       *)
(* 'FINAL ANSWER:' is one element, MARKER: the other characters of the     *)
(* alphabet cannot form it, so an occurrence of the literal is an          *)
(* occurrence of that element.  Python indices are 0-based, the model's    *)
(* idx is the Python idx + 1; batch_start and batch_end keep the Python    *)
(* values, so the chunk is batch_start+1 .. batch_end.                     *)
(***************************************************************************)
EXTENDS Integers, Sequences, FiniteSets, TLC

(***************************************************************************)
(* Bounds of the model.                                                    *)
(***************************************************************************)
\* Largest number of questions of a batch.
MaxN == 4
\* The chunk size.  The program sets BATCH_SIZE = 10 (my_agent.py line 123);
\* the model scales it down so that every interleaving of a full chunk and
\* several chunks in a row are explored.
BATCH_SIZE == 2
\* Largest max_retries of a direct call of run_agent (RetrySpec).
MaxRetriesBound == 4
\* Longest text given to a direct call of extract_answer (ExtractSpec).
MaxTextLen == 4

\* Default of run_agent's max_retries, the value every task of the batch uses.
DefaultMaxRetries == 3

(***************************************************************************)
(* Texts.                                                                  *)
(***************************************************************************)
MARKER == "FINAL ANSWER:"
NL == "\n"
Whitespace == {" ", NL}

Min(a, b) == IF a < b THEN a ELSE b

RECURSIVE LStripSet(_, _)
LStripSet(s, cs) ==
    IF s # <<>> /\ Head(s) \in cs THEN LStripSet(Tail(s), cs) ELSE s

RECURSIVE RStripSet(_, _)
RStripSet(s, cs) ==
    IF s # <<>> /\ s[Len(s)] \in cs
    THEN RStripSet(SubSeq(s, 1, Len(s) - 1), cs)
    ELSE s

\* str.strip(): leading and trailing whitespace removed.
Strip(s) == RStripSet(LStripSet(s, Whitespace), Whitespace)

\* str.replace(" ", ""): every space removed, and only spaces.
RemoveSpaces(s) == SelectSeq(s, LAMBDA c : c # " ")

HasMarker(s) == \E k \in 1..Len(s) : s[k] = MARKER

\* raw_text.split("FINAL ANSWER:")[-1]: the text after the last marker.
AfterLastMarker(s) ==
    LET k == CHOOSE j \in 1..Len(s) :
                 s[j] = MARKER /\ \A m \in (j + 1)..Len(s) : s[m] # MARKER
    IN  SubSeq(s, k + 1, Len(s))

(***************************************************************************)
(* Python values.  A raw text is a str or, when the service's "content"    *)
(* field holds something else, a number.  Optional[str] is a record with   *)
(* a none flag.                                                            *)
(***************************************************************************)
Str(s) == [type |-> "str", text |-> s]
Num == [type |-> "num", text |-> <<>>]
NoneStr == [none |-> TRUE, text |-> <<>>]
Some(s) == [none |-> FALSE, text |-> s]

\* An element of answers: None, or the dict {"output": s}.
None == [none |-> TRUE, output |-> <<>>]
Dict(s) == [none |-> FALSE, output |-> s]

\* Python truthiness of an Optional[str].
Truthy(a) == ~a.none /\ a.text # <<>>

(***************************************************************************)
(* extract_answer.  Defined on str; a non-str argument raises (TypeError   *)
(* at the 'in' test), which ExtractRaises states.                          *)
(***************************************************************************)
ExtractRaises(raw) == raw.type # "str"

\* A slip: the leading '+' is not stripped.
CleanupKeepsPlus(ans) == RemoveSpaces(RStripSet(ans, {"."}))

\* ans.rstrip(".").lstrip("+").replace(" ", "")
Cleanup(ans) == RemoveSpaces(LStripSet(RStripSet(ans, {"."}), {"+"}))

\* A slip: no test for the marker; split(...)[-1] of a text without the
\* marker is the whole text.
ExtractAnswerNoMarkerTest(raw) ==
    IF raw.text = <<>>
    THEN NoneStr
    ELSE LET tail == IF HasMarker(raw.text) THEN AfterLastMarker(raw.text) ELSE raw.text
             ans == Cleanup(Strip(tail))
         IN  IF ans = <<>> THEN NoneStr ELSE Some(ans)

extract_answer(raw) ==
    IF raw.text = <<>> \/ ~HasMarker(raw.text)
    THEN NoneStr
    ELSE LET ans == Cleanup(Strip(AfterLastMarker(raw.text)))
         IN  IF ans = <<>> THEN NoneStr ELSE Some(ans)

(***************************************************************************)
(* The external service.  One HTTP exchange ends with status 200 and a     *)
(* body, with another status, or with an exception (timeout, connection    *)
(* error, undecodable body).  The "content" of a 200 body is a str, null   *)
(* or some other JSON value.                                               *)
(***************************************************************************)
Bodies(q) ==
    { Str(<<MARKER, " ">> \o q \o <<".">>),
      Str(<<"x", MARKER, " ", "+">> \o q),
      Str(<<MARKER, " ">> \o q \o <<NL, ".">>),
      Str(<<MARKER, " ", "+", NL, ".">>),
      Str(<<MARKER, " ", ".">>),
      Str(q),
      Str(<<>>) }

HttpOutcomes(q) ==
    { [kind |-> "200", content |-> [null |-> FALSE, value |-> b]] : b \in Bodies(q) }
    \cup { [kind |-> "200", content |-> [null |-> FALSE, value |-> Num]],
           [kind |-> "200", content |-> [null |-> TRUE, value |-> Str(<<>>)]],
           [kind |-> "status", content |-> [null |-> TRUE, value |-> Str(<<>>)]],
           [kind |-> "exception", content |-> [null |-> TRUE, value |-> Str(<<>>)]] }

\* call_model_chat_completions: {"ok": True, "text": content} on status 200,
\* {"ok": False, "text": None} otherwise; no exception leaves it.
call_model_chat_completions(http) ==
    IF http.kind = "200"
    THEN [ok |-> TRUE, text |-> http.content]
    ELSE [ok |-> FALSE, text |-> [null |-> TRUE, value |-> Str(<<>>)]]

\* ask_solver: resp.get("text") or "".
ask_solver(http) ==
    LET resp == call_model_chat_completions(http)
    IN  IF resp.text.null \/ (resp.text.value.type = "str" /\ resp.text.value.text = <<>>)
        THEN Str(<<>>)
        ELSE resp.text.value

(***************************************************************************)
(* State.                                                                  *)
(***************************************************************************)
VARIABLES
    questions,    \* the input list; questions[i].input is the text of question i
    max_retries,  \* run_agent's attempt budget
    answers,      \* the list answers of generate_all_answers: None or a dict
    save_lock,    \* TRUE while save_lock is held
    file,         \* the file at PARTIAL_PATH
    futures,      \* one record per question: its task (run_agent's frame) and future
    schedPc,      \* where the thread running generate_all_answers is
    batch_start,  \* loop variable of the chunk loop
    batch_end,
    cur,          \* idx of the completion being handled, 0 when there is none
    block,        \* "try" or "except": the block of the completion loop's body
    log,          \* the progress lines printed, in order
    result,       \* the list generate_all_answers returns
    call          \* the last exchange with the service, or function call, observed

vars == <<questions, max_retries, answers, save_lock, file, futures, schedPc,
          batch_start, batch_end, cur, block, log, result, call>>

total == Len(questions)

Digits == <<"1", "2", "3", "4", "5", "6", "7", "8", "9">>

\* The question list of a batch of n questions: question i carries digit i.
QuestionList(n) == [i \in 1..n |-> [input |-> <<Digits[i]>>]]

\* Nothing observed: the batch does not record its exchanges.
NoCall ==
    [op |-> "none", idx |-> 0,
     http |-> [kind |-> "none", content |-> [null |-> TRUE, value |-> Str(<<>>)]],
     arg |-> Str(<<>>), out |-> NoneStr]

\* A future whose task was not submitted yet.  pc, arg, attempt and answer are
\* the task's position and run_agent's locals (raw is dead once answer is
\* set and is not kept); result is what the future holds once the task is
\* done; attempts, absents and sleeps count what the call has done so far:
\* solve attempts, attempts that gave no answer, and the sleeps' lengths.
NewFuture ==
    [pc |-> "unsubmitted", arg |-> <<>>, attempt |-> 0, answer |-> NoneStr, result |-> <<>>, attempts |-> 0, absents |-> 0,
     sleeps |-> <<>>, yielded |-> FALSE]

Done(f) == f.pc \in {"finished", "raised"}
Live(f) == f.pc \in {"pending", "ask", "sleep"}
Running(f) == f.pc \in {"ask", "sleep"}

(***************************************************************************)
(* run_agent, one step at a time, on the frame f of its task.              *)
(***************************************************************************)
\* A slip: the loop counts its attempts from 1, range(1, max_retries + 1).
RunAgentEnterFromOne(f, max) ==
    IF max <= 0
    THEN [f EXCEPT !.pc = "finished", !.result = <<>>]
    ELSE [f EXCEPT !.pc = "ask", !.attempt = 1]

\* Entry: the for loop over range(max_retries) starts, or is empty.
RunAgentEnter(f, max) ==
    IF max <= 0
    THEN [f EXCEPT !.pc = "finished", !.result = <<>>]
    ELSE [f EXCEPT !.pc = "ask", !.attempt = 0]

\* A slip: a constant backoff, time.sleep(1).
BackoffConstant(attempt) == 1

\* time.sleep(1 * (attempt + 1)).
Backoff(attempt) == 1 * (attempt + 1)

\* if attempt < max_retries - 1: sleep.
SleepsAfter(attempt, max) == attempt < max - 1

\* One pass of the loop body up to the sleep: ask_solver, extract_answer, the
\* return of a truthy answer, the decision to sleep, the fall out of the loop.
RunAgentAttempt(f, http, max) ==
    LET raw == ask_solver(http)
    IN  IF ExtractRaises(raw)
        THEN [f EXCEPT !.pc = "raised", !.attempts = @ + 1]
        ELSE LET answer == extract_answer(raw)
                 g == [f EXCEPT !.answer = answer, !.attempts = @ + 1]
             IN  IF Truthy(answer)
                 THEN [g EXCEPT !.pc = "finished", !.result = Strip(answer.text)]
                 ELSE LET h == [g EXCEPT !.absents = @ + 1]
                      IN  IF SleepsAfter(f.attempt, max)
                          THEN [h EXCEPT !.pc = "sleep",
                                         !.sleeps = Append(@, Backoff(f.attempt))]
                          ELSE [h EXCEPT !.pc = "finished", !.result = <<>>]

\* The sleep ends and the loop goes to its next attempt.
RunAgentWake(f) == [f EXCEPT !.pc = "ask", !.attempt = @ + 1]

(***************************************************************************)
(* Worker threads of the pool.  When the task is done the future keeps its *)
(* outcome (the value returned, or that it raised) and run_agent's frame   *)
(* is gone.                                                                *)
(***************************************************************************)
SetOutcome(f) ==
    IF Done(f)
    THEN [NewFuture EXCEPT !.pc = f.pc, !.arg = f.arg, !.result = f.result]
    ELSE f

\* A slip: the worker stores its result in the slot itself when it ends.
WorkerWritesSlot(ans, i, f) ==
    IF f.pc = "finished" THEN [ans EXCEPT ![i] = Dict(Strip(f.result))] ELSE ans

\* What a step of run_agent leaves in answers: run_agent and the functions
\* it calls have only locals, they assign nothing of generate_all_answers.
WorkerEffect(ans, i, f) == ans

\* ThreadPoolExecutor(max_workers=BATCH_SIZE): a worker takes a submitted task.
TaskStart ==
    \E i \in 1..total :
        /\ futures[i].pc = "pending"
        /\ Cardinality({j \in 1..total : Running(futures[j])}) < BATCH_SIZE
        /\ futures' = [futures EXCEPT ![i] = SetOutcome(RunAgentEnter(@, max_retries))]
        /\ UNCHANGED <<questions, max_retries, answers, save_lock, file, schedPc,
                       batch_start, batch_end, cur, block, log, result, call>>

TaskAttempt ==
    \E i \in 1..total :
        /\ futures[i].pc = "ask"
        /\ \E http \in HttpOutcomes(futures[i].arg) :
               futures' = [futures EXCEPT
                              ![i] = SetOutcome(RunAgentAttempt(@, http, max_retries))]
        /\ answers' = WorkerEffect(answers, i, futures'[i])
        /\ UNCHANGED <<questions, max_retries, save_lock, file, schedPc,
                       batch_start, batch_end, cur, block, log, result, call>>

TaskWake ==
    \E i \in 1..total :
        /\ futures[i].pc = "sleep"
        /\ futures' = [futures EXCEPT ![i] = RunAgentWake(@)]
        /\ UNCHANGED <<questions, max_retries, answers, save_lock, file, schedPc,
                       batch_start, batch_end, cur, block, log, result, call>>

(***************************************************************************)
(* generate_all_answers.                                                   *)
(***************************************************************************)
\* A slip: the pending slots are left out, [a for a in answers if a is not None].
RenderFilledOnly(ans) == SelectSeq(ans, LAMBDA a : ~a.none)

\* [a if a is not None else {"output": ""} for a in answers]
Render(ans) == [i \in 1..Len(ans) |-> IF ans[i].none THEN Dict(<<>>) ELSE ans[i]]

\* A slip: only the slots with a non-empty answer are counted as completed.
GetProgressCountsAnswered(ans) ==
    LET completed == Cardinality({i \in 1..Len(ans) :
                                     ~ans[i].none /\ ans[i].output # <<>>})
    IN  [completed |-> completed,
         remaining |-> Len(ans) - completed,
         percentage |-> IF Len(ans) > 0 THEN <<completed * 100, Len(ans)>> ELSE <<0, 1>>]

\* A slip: the test is inverted, the pending slots are counted as completed.
GetProgressCountsPending(ans) ==
    LET completed == Cardinality({i \in 1..Len(ans) : ans[i].none})
    IN  [completed |-> completed,
         remaining |-> Len(ans) - completed,
         percentage |-> IF Len(ans) > 0 THEN <<completed * 100, Len(ans)>> ELSE <<0, 1>>]

\* A slip: the file is opened for appending, open("a").
PersistAppend(old, ans) ==
    [state |-> "written", entries |-> old.entries \o Render(ans)]

\* PARTIAL_PATH.open("w") and json.dump: the file is replaced by the rendering.
Persist(old, ans) == [state |-> "written", entries |-> Render(ans)]

\* get_progress_info; the percentage completed / total * 100 is kept as the
\* fraction <<numerator, denominator>>.
get_progress_info(ans) ==
    LET completed == Cardinality({i \in 1..Len(ans) : ~ans[i].none})
    IN  [completed |-> completed,
         remaining |-> Len(ans) - completed,
         percentage |-> IF Len(ans) > 0 THEN <<completed * 100, Len(ans)>> ELSE <<0, 1>>]

\* A slip: an inclusive upper end, one question too many in the chunk.
BatchEndWide(bs, n) == Min(bs + BATCH_SIZE + 1, n)

\* batch_end = min(batch_start + BATCH_SIZE, total)
BatchEnd(bs, n) == Min(bs + BATCH_SIZE, n)

\* batch_indices = list(range(batch_start, batch_end)), as model indices.
Chunk == (batch_start + 1)..batch_end

\* A slip: the future is keyed to its position in the chunk.
FutureToIdxInChunk(f) == ((f - 1) % BATCH_SIZE) + 1

\* future_to_idx[future]: the task submitted for idx is keyed to idx.
future_to_idx(f) == f

\* A slip: the completion loop ends after its first future.
ExhaustedEarly(fs, chunk) == \E i \in chunk : fs[i].yielded

\* as_completed(future_to_idx) is exhausted: it has yielded every future.
Exhausted(fs, chunk) == \A i \in chunk : fs[i].yielded

\* A slip: no except handler around the body of the completion loop.
OnExceptionPropagates(blk) == "unwinding"

\* save_answers without its with save_lock block.
WithoutSaveLock == FALSE

\* with save_lock: the block of save_answers runs holding save_lock.
WithSaveLock == TRUE

\* A slip: save_lock.acquire() with no release when save_answers ends.
StillHeldAfterWith == TRUE

\* The with save_lock block is left: whether save_lock is still held.
HeldAfterWith == FALSE

\* Where an exception raised in the body of the completion loop goes: from the
\* try block to the except handler, from the handler out of the loop.
OnException(blk) == IF blk = "try" THEN "except" ELSE "unwinding"

Init ==
    /\ \E n \in 0..MaxN : questions = QuestionList(n)
    /\ max_retries = DefaultMaxRetries
    /\ answers = [i \in 1..total |-> None]
    /\ save_lock = FALSE
    /\ file = [state |-> "absent", entries |-> <<>>]
    /\ futures = [i \in 1..total |-> NewFuture]
    /\ schedPc = "loop"
    /\ batch_start = 0
    /\ batch_end = 0
    /\ cur = 0
    /\ block = "try"
    /\ log = <<>>
    /\ result = <<>>
    /\ call = NoCall

\* for batch_start in range(0, total, BATCH_SIZE): one more chunk.
BatchBegin ==
    /\ schedPc = "loop"
    /\ batch_start < total
    /\ batch_end' = BatchEnd(batch_start, total)
    /\ schedPc' = "submit"
    /\ UNCHANGED <<questions, max_retries, answers, save_lock, file, futures,
                   batch_start, cur, block, log, result, call>>

\* executor.submit(run_agent, q.get("input", "")), in the order of the chunk.
Submit ==
    /\ schedPc = "submit"
    /\ LET unsub == {i \in Chunk : futures[i].pc = "unsubmitted"}
       IN  /\ unsub # {}
           /\ LET i == CHOOSE j \in unsub : \A k \in unsub : j <= k
              IN  futures' = [futures EXCEPT ![i].pc = "pending",
                                             ![i].arg = questions[i].input]
           /\ schedPc' = IF Cardinality(unsub) = 1 THEN "wait" ELSE "submit"
    /\ UNCHANGED <<questions, max_retries, answers, save_lock, file,
                   batch_start, batch_end, cur, block, log, result, call>>

\* A slip: the next completion is taken while the body handling the
\* previous one is still saving or reporting.
LoopBodyOverlaps ==
    schedPc \in {"wait", "save_acquire", "save_write", "save_release", "progress"}

\* The for statement takes the next completion only when the body handling
\* the previous one has ended.
LoopBodyDone == schedPc = "wait"

\* as_completed yields a future that is done and was not yielded before.
NextCompleted ==
    /\ LoopBodyDone
    /\ \E i \in Chunk :
           /\ Done(futures[i])
           /\ ~futures[i].yielded
           /\ futures' = [futures EXCEPT ![i].yielded = TRUE]
           /\ cur' = future_to_idx(i)
    /\ schedPc' = "result"
    /\ block' = "try"
    /\ UNCHANGED <<questions, max_retries, answers, save_lock, file,
                   batch_start, batch_end, log, result, call>>

\* final = future.result().strip(); answers[idx] = {"output": final}
\* future.result() re-raises what the task raised.
HandleResult ==
    /\ schedPc = "result"
    /\ IF futures[cur].pc = "raised"
       THEN /\ schedPc' = OnException(block)
            /\ block' = "except"
            /\ UNCHANGED answers
       ELSE /\ answers' = [answers EXCEPT ![cur] = Dict(Strip(futures[cur].result))]
            /\ schedPc' = "save_acquire"
            /\ UNCHANGED block
    /\ UNCHANGED <<questions, max_retries, save_lock, file, futures,
                   batch_start, batch_end, cur, log, result, call>>

\* except Exception: print(...); answers[idx] = {"output": ""}
ExceptWrite ==
    /\ schedPc = "except"
    /\ answers' = [answers EXCEPT ![cur] = Dict(<<>>)]
    /\ schedPc' = "save_acquire"
    /\ UNCHANGED <<questions, max_retries, save_lock, file, futures,
                   batch_start, batch_end, cur, block, log, result, call>>

\* save_answers: with save_lock: ...
SaveAcquire ==
    /\ schedPc = "save_acquire"
    /\ ~save_lock
    /\ save_lock' = WithSaveLock
    /\ schedPc' = "save_write"
    /\ UNCHANGED <<questions, max_retries, answers, file, futures,
                   batch_start, batch_end, cur, block, log, result, call>>

\* PARTIAL_PATH.open("w"); json.dump(completed_answers, fp, ...)
SaveWrite ==
    /\ schedPc = "save_write"
    /\ file' = Persist(file, answers)
    /\ schedPc' = "save_release"
    /\ UNCHANGED <<questions, max_retries, answers, save_lock, futures,
                   batch_start, batch_end, cur, block, log, result, call>>

\* The end of the with save_lock block.
SaveRelease ==
    /\ schedPc = "save_release"
    /\ save_lock' = HeldAfterWith
    /\ schedPc' = "progress"
    /\ UNCHANGED <<questions, max_retries, answers, file, futures,
                   batch_start, batch_end, cur, block, log, result, call>>

\* completed, remaining, percentage = get_progress_info(); print(...)
Progress ==
    /\ schedPc = "progress"
    /\ log' = Append(log, [idx |-> cur, block |-> block,
                           info |-> get_progress_info(answers)])
    /\ schedPc' = "wait"
    /\ cur' = 0
    /\ UNCHANGED <<questions, max_retries, answers, save_lock, file, futures,
                   batch_start, batch_end, block, result, call>>

\* A slip: the chunk loop steps by one less than the chunk size.
NextBatchStartOverlap(bs) == bs + BATCH_SIZE - 1

\* A slip: the chunk loop steps by one more than the chunk size.
NextBatchStartSkip(bs) == bs + BATCH_SIZE + 1

\* range(0, total, BATCH_SIZE): the next value of batch_start.
NextBatchStart(bs) == bs + BATCH_SIZE

\* The completion loop is exhausted, the with ThreadPoolExecutor block ends
\* and the chunk loop steps.
ChunkEnd ==
    /\ schedPc = "wait"
    /\ Exhausted(futures, Chunk)
    /\ batch_start' = NextBatchStart(batch_start)
    /\ schedPc' = "loop"
    /\ UNCHANGED <<questions, max_retries, answers, save_lock, file, futures,
                   batch_end, cur, block, log, result, call>>

\* The chunk loop is over: final_answers is built and returned.
Finalize ==
    /\ schedPc = "loop"
    /\ batch_start >= total
    /\ result' = Render(answers)
    /\ schedPc' = "returned"
    /\ UNCHANGED <<questions, max_retries, answers, save_lock, file, futures,
                   batch_start, batch_end, cur, block, log, call>>

Next ==
    \/ TaskStart
    \/ TaskAttempt
    \/ TaskWake
    \/ BatchBegin
    \/ Submit
    \/ NextCompleted
    \/ HandleResult
    \/ ExceptWrite
    \/ SaveAcquire
    \/ SaveWrite
    \/ SaveRelease
    \/ Progress
    \/ ChunkEnd
    \/ Finalize

\* The batch in an environment where writing the file and printing succeed.
Spec == Init /\ [][Next]_vars

(***************************************************************************)
(* The same batch in an environment where writing the file and printing    *)
(* may fail (OSError from open or json.dump, UnicodeEncodeError or         *)
(* BrokenPipeError from print).                                            *)
(***************************************************************************)
\* PARTIAL_PATH.open("w") or json.dump raises: the with block releases
\* save_lock and the exception goes on.  open("w") that failed leaves the file
\* as it was; a dump that failed leaves a truncated file.
SaveWriteFails ==
    /\ schedPc = "save_write"
    /\ \E truncated \in BOOLEAN :
           file' = IF truncated THEN [state |-> "truncated", entries |-> <<>>] ELSE file
    /\ save_lock' = FALSE
    /\ schedPc' = OnException(block)
    /\ block' = "except"
    /\ UNCHANGED <<questions, max_retries, answers, futures,
                   batch_start, batch_end, cur, log, result, call>>

\* A print of the loop body raises: the progress line of either block, or the
\* first line of the except handler.
PrintFails ==
    /\ schedPc \in {"progress", "except"}
    /\ schedPc' = OnException(block)
    /\ block' = "except"
    /\ UNCHANGED <<questions, max_retries, answers, save_lock, file, futures,
                   batch_start, batch_end, cur, log, result, call>>

\* An exception leaves the completion loop: the with ThreadPoolExecutor block
\* waits for the tasks of the chunk (shutdown(wait=True)), then the exception
\* leaves generate_all_answers.
Unwind ==
    /\ schedPc = "unwinding"
    /\ \A i \in Chunk : Done(futures[i])
    /\ schedPc' = "raised"
    /\ UNCHANGED <<questions, max_retries, answers, save_lock, file, futures,
                   batch_start, batch_end, cur, block, log, result, call>>

NextIO ==
    \/ Next
    \/ SaveWriteFails
    \/ PrintFails
    \/ Unwind

SpecIO == Init /\ [][NextIO]_vars

\* Every thread that can take a step eventually takes one.
FairSpec == Spec /\ WF_vars(Next)
FairSpecIO == SpecIO /\ WF_vars(NextIO)

(***************************************************************************)
(* Direct calls run_agent(question_text, max_retries) with any budget:     *)
(* futures[i] is the frame of call i, kept as it is when the call ends.    *)
(* RetrySpec makes one call, PairSpec two calls in two threads.            *)
(***************************************************************************)
DirectTexts == {<<"7">>, <<"4", "2">>}

RetryInit ==
    /\ \E q \in DirectTexts :
           /\ questions = <<[input |-> q]>>
           /\ futures = <<[NewFuture EXCEPT !.pc = "pending", !.arg = q]>>
    /\ max_retries \in 0..MaxRetriesBound
    /\ answers = <<None>>
    /\ save_lock = FALSE
    /\ file = [state |-> "absent", entries |-> <<>>]
    /\ schedPc = "direct"
    /\ batch_start = 0
    /\ batch_end = 0
    /\ cur = 0
    /\ block = "try"
    /\ log = <<>>
    /\ result = <<>>
    /\ call = NoCall

AgentCall ==
    /\ schedPc = "direct"
    /\ \E i \in 1..total :
           /\ futures[i].pc = "pending"
           /\ futures' = [futures EXCEPT ![i] = RunAgentEnter(@, max_retries)]
    /\ UNCHANGED <<questions, max_retries, answers, save_lock, file, schedPc,
                   batch_start, batch_end, cur, block, log, result, call>>

\* The exchange of the attempt is observed in call.
AgentAttempt ==
    /\ schedPc = "direct"
    /\ \E i \in 1..total :
           /\ futures[i].pc = "ask"
           /\ \E http \in HttpOutcomes(futures[i].arg) :
                  /\ futures' = [futures EXCEPT
                                    ![i] = RunAgentAttempt(@, http, max_retries)]
                  /\ call' = [NoCall EXCEPT !.op = "post", !.idx = i, !.http = http]
    /\ UNCHANGED <<questions, max_retries, answers, save_lock, file, schedPc,
                   batch_start, batch_end, cur, block, log, result>>

AgentWake ==
    /\ schedPc = "direct"
    /\ \E i \in 1..total :
           /\ futures[i].pc = "sleep"
           /\ futures' = [futures EXCEPT ![i] = RunAgentWake(@)]
    /\ UNCHANGED <<questions, max_retries, answers, save_lock, file, schedPc,
                   batch_start, batch_end, cur, block, log, result, call>>

RetryNext ==
    \/ AgentCall
    \/ AgentAttempt
    \/ AgentWake

RetrySpec == RetryInit /\ [][RetryNext]_vars

PairInit ==
    /\ questions = <<[input |-> <<"7">>], [input |-> <<"4", "2">>]>>
    /\ futures = [i \in 1..2 |->
                     [NewFuture EXCEPT !.pc = "pending", !.arg = questions[i].input]]
    /\ max_retries \in 0..MaxRetriesBound
    /\ answers = <<None, None>>
    /\ save_lock = FALSE
    /\ file = [state |-> "absent", entries |-> <<>>]
    /\ schedPc = "direct"
    /\ batch_start = 0
    /\ batch_end = 0
    /\ cur = 0
    /\ block = "try"
    /\ log = <<>>
    /\ result = <<>>
    /\ call = NoCall

PairSpec == PairInit /\ [][RetryNext]_vars

(***************************************************************************)
(* A direct call extract_answer(raw_text) on any text of at most           *)
(* MaxTextLen characters of Alphabet.                                      *)
(***************************************************************************)
Alphabet == {MARKER, "4", ".", "+", " ", NL}

RECURSIVE Texts(_)
Texts(n) ==
    IF n = 0
    THEN {<<>>}
    ELSE LET shorter == Texts(n - 1)
         IN  shorter \cup {Append(t, c) : t \in {u \in shorter : Len(u) = n - 1},
                                           c \in Alphabet}

ExtractInit ==
    /\ \E t \in Texts(MaxTextLen) :
           call = [NoCall EXCEPT !.op = "extract_answer", !.arg = Str(t)]
    /\ questions = <<>>
    /\ futures = <<>>
    /\ max_retries = DefaultMaxRetries
    /\ answers = <<>>
    /\ save_lock = FALSE
    /\ file = [state |-> "absent", entries |-> <<>>]
    /\ schedPc = "direct"
    /\ batch_start = 0
    /\ batch_end = 0
    /\ cur = 0
    /\ block = "try"
    /\ log = <<>>
    /\ result = <<>>

\* extract_answer runs on the text and returns.
ExtractCall ==
    /\ call.op = "extract_answer"
    /\ call' = [call EXCEPT !.op = "returned", !.out = extract_answer(call.arg)]
    /\ UNCHANGED <<questions, max_retries, answers, save_lock, file, futures,
                   schedPc, batch_start, batch_end, cur, block, log, result>>

ExtractSpec == ExtractInit /\ [][ExtractCall]_vars

(***************************************************************************)
(* Properties.                                                             *)
(***************************************************************************)
ChunkOf(i) == (i - 1) \div BATCH_SIZE
Returned == schedPc = "returned"
Filled(i) == ~answers[i].none

\* C1 (Spec): when generate_all_answers returns, the list has exactly as many
\* entries as there were questions, the task of index i was run_agent applied
\* to the text of question i, and entry i is what that task returned (its
\* answer or the empty string), whatever the order of the completions.
C1_OutputMatchesInput ==
    Returned =>
        /\ Len(result) = total
        /\ \A i \in 1..total :
               /\ ~result[i].none
               /\ futures[i].arg = questions[i].input
               /\ futures[i].pc = "finished" => result[i].output = futures[i].result

\* Two tasks of one chunk completed in the reverse of the input order, and
\* every question got its own non-empty answer.
C1_Witness ==
    /\ Returned
    /\ total >= 3
    /\ log[1].idx = 2 /\ log[2].idx = 1
    /\ \A i \in 1..total : result[i].output = questions[i].input

\* C2 (Spec): chunk barrier: a task of a later chunk is submitted (and so
\* can run) only when every task of every earlier chunk is done, was yielded
\* by the completion loop and has its slot filled.
C2_ChunkBarrier ==
    \A i, j \in 1..total :
        (ChunkOf(i) < ChunkOf(j) /\ futures[j].pc # "unsubmitted") =>
            /\ Done(futures[i])
            /\ futures[i].yielded
            /\ Filled(i)
            /\ cur # i

\* A task of the second chunk is running.
C2_Witness ==
    \E j \in 1..total : ChunkOf(j) = 1 /\ Running(futures[j])

\* C3 (Spec): the tasks that are submitted and not done, and the tasks that
\* are submitted and whose slot is not filled, are never more than BATCH_SIZE;
\* so neither are the tasks inside the external call.
C3_BoundedLive ==
    /\ Cardinality({i \in 1..total : Live(futures[i])}) <= BATCH_SIZE
    /\ Cardinality({i \in 1..total :
                       futures[i].pc # "unsubmitted" /\ ~Filled(i)}) <= BATCH_SIZE
    /\ Cardinality({i \in 1..total : futures[i].pc = "ask"}) <= BATCH_SIZE

\* A full chunk is inside the external call at once.
C3_Witness ==
    Cardinality({i \in 1..total : futures[i].pc = "ask"}) = BATCH_SIZE

\* C4 (Spec): a written file always holds one entry per question, none of
\* them null; right after a write (save_lock still held) entry i is the
\* answer of slot i if the slot is filled and the empty string if it is
\* pending.
C4_SnapshotFullLength ==
    /\ file.state = "written" =>
           /\ Len(file.entries) = total
           /\ \A i \in 1..total : ~file.entries[i].none
    /\ schedPc = "save_release" =>
           /\ file.state = "written"
           /\ \A i \in 1..total :
                  /\ Filled(i) => file.entries[i].output = answers[i].output
                  /\ ~Filled(i) => file.entries[i].output = <<>>

\* A snapshot was just written with a non-empty answer in a later slot and
\* an earlier slot still pending.
C4_Witness ==
    /\ schedPc = "save_release"
    /\ \E i, j \in 1..total :
           i < j /\ ~Filled(i) /\ Filled(j) /\ answers[j].output # <<>>

\* The backoff sleeps of a call that made k attempts and slept after
\* all but the last: 1 s, 2 s, ..., (k-1) s.
BackoffsUpTo(k) == [j \in 1..(k - 1) |-> j]

RECURSIVE Sum(_)
Sum(seq) == IF seq = <<>> THEN 0 ELSE Head(seq) + Sum(Tail(seq))

GotAnswer(f) == f.pc = "finished" /\ Truthy(f.answer)

AttemptsAndSleepsOfSuccess(f) ==
    /\ f.attempts >= 1
    /\ f.attempts <= max_retries
    /\ f.absents = f.attempts - 1
    /\ f.attempt = f.attempts - 1
    /\ f.sleeps = BackoffsUpTo(f.attempts)
    /\ f.absents = 0 => (f.attempts = 1 /\ f.sleeps = <<>>)

C7_TaskFailureAbsorbed ==
    /\ [](/\ schedPc \notin {"unwinding", "raised"}
          /\ \A i \in 1..total :
                 (futures[i].pc = "raised" /\ futures[i].yielded /\ cur # i) =>
                     answers[i] = Dict(<<>>)
          /\ Returned =>
                 \A i \in 1..total :
                     /\ futures[i].pc = "raised" => result[i] = Dict(<<>>)
                     /\ futures[i].pc = "finished" =>
                            result[i] = Dict(futures[i].result))
    /\ (\E i \in 1..total : futures[i].pc = "raised") ~> Returned

\* The batch returned although the first task raised, and the task that
\* completed after it in the same chunk got its own answer.
C7_Witness ==
    /\ Returned
    /\ total >= 2
    /\ futures[1].pc = "raised"
    /\ log[1].idx = 1
    /\ result[1] = Dict(<<>>)
    /\ result[2] = Dict(questions[2].input)

\* C8 as stated (FairSpecIO): whatever fails in a solve attempt, in a task
\* or while a completion is handled (the write of the file, a print), the
\* batch eventually returns a list with one entry per question.
C8_BatchAlwaysReturns == <>(Returned /\ Len(result) = total)

\* C9 as stated (SpecIO): a slot that is filled keeps its value in every
\* later step, also when a task raises or a write of the file fails.
C9_SlotWrittenOnce ==
    [][\A i \in 1..total : Filled(i) => answers'[i] = answers[i]]_vars

C11_GuardIsLeaf ==
    /\ [](/\ save_lock => schedPc \in {"save_write", "save_release"}
          /\ schedPc = "save_acquire" => ~save_lock)
    /\ [][futures' # futures => save_lock' = save_lock]_vars
    /\ [][(save_lock /\ save_lock') => futures' = futures \/ schedPc' = schedPc]_vars
    /\ save_lock ~> ~save_lock
    /\ (schedPc = "save_acquire") ~> save_lock

\* save_lock is held, for the completion of one task, while the other task
\* of the chunk is in its backoff sleep.
C11_Witness ==
    /\ save_lock
    /\ cur # 0
    /\ \E j \in 1..total : j # cur /\ futures[j].pc = "sleep"

\* The steps of one completion's handling after its slot write.
AfterSlotWrite == {"save_acquire", "save_write", "save_release", "progress"}

FilledCount == Cardinality({i \in 1..total : Filled(i)})

\* C12 (Spec): the counters printed for a completion are those of answers
\* as the slot write of that completion left it: answers does not change
\* between the slot write and the print, completed is the number of filled
\* slots, remaining is total - completed and the percentage is
\* completed / total * 100.
C12_ProgressMatchesAnswers ==
    [][ /\ schedPc \in AfterSlotWrite => answers' = answers
        /\ log' # log =>
               LET e == log'[Len(log')]
               IN  /\ log' = Append(log, e)
                   /\ e.idx = cur
                   /\ Filled(cur)
                   /\ e.info.completed = FilledCount
                   /\ e.info.remaining = total - FilledCount
                   /\ e.info.percentage = <<FilledCount * 100, total>> ]_vars

\* The second of three completions was reported as 2 completed, 1
\* remaining, 200/3 percent, after an empty answer.
C12_Witness ==
    /\ total = 3
    /\ Len(log) = 2
    /\ log[2].info = [completed |-> 2, remaining |-> 1, percentage |-> <<200, 3>>]
    /\ \E i \in 1..total : answers[i] = Dict(<<>>)

\* An exchange that ended with a non-success status or with an exception
\* (timeout, transport error), or whose text lacks the marker, or whose
\* value after the marker is empty after the cleanup.
FailedExchange(h) ==
    \/ h.kind \in {"status", "exception"}
    \/ /\ h.kind = "200"
       /\ ~h.content.null
       /\ h.content.value.type = "str"
       /\ LET t == h.content.value.text
          IN  \/ ~HasMarker(t)
              \/ Cleanup(Strip(AfterLastMarker(t))) = <<>>

\* C13 (PairSpec): an attempt whose exchange failed in one of these ways
\* raises nothing and gives no answer; it counts as one attempt and one
\* failed attempt of its own call, which sleeps if attempts are left and
\* otherwise returns the empty string; the other call's frame and the
\* shared state are not touched.
C13_FailedAttemptIsAbsence ==
    /\ [](\A i \in 1..total : futures[i].attempts <= max_retries)
    /\ [][\A i \in 1..total :
              (futures[i].pc = "ask" /\ futures'[i] # futures[i]) =>
                  /\ call'.op = "post"
                  /\ call'.idx = i
                  /\ FailedExchange(call'.http) =>
                         /\ futures'[i].pc \in {"sleep", "finished"}
                         /\ futures'[i].answer.none
                         /\ futures'[i].attempts = futures[i].attempts + 1
                         /\ futures'[i].absents = futures[i].absents + 1
                         /\ futures'[i].pc = "sleep" <=>
                                futures[i].attempts + 1 < max_retries
                         /\ futures'[i].pc = "finished" => futures'[i].result = <<>>
                         /\ \A j \in 1..total : j # i => futures'[j] = futures[j]
                         /\ UNCHANGED <<answers, file, save_lock>>]_vars

\* The first call's second attempt ended with an exception and the call went
\* to sleep; the second call had already returned its answer.
C13_Witness ==
    /\ call.op = "post"
    /\ call.idx = 1
    /\ call.http.kind = "exception"
    /\ futures[1].pc = "sleep"
    /\ futures[1].absents = 2
    /\ futures[2].pc = "finished"
    /\ futures[2].result = <<"4", "2">>

\* The text after the last marker of a text that has one.
TailOf(t) ==
    LET k == CHOOSE j \in 1..Len(t) :
                 t[j] = MARKER /\ \A m \in (j + 1)..Len(t) : t[m] # MARKER
    IN  [j \in 1..(Len(t) - k) |-> t[k + j]]

AllIn(t, lo, hi, cs) == \A k \in lo..hi : t[k] \in cs

\* What the claim says extract_answer returns for the text after the marker:
\* trailing period and leading plus stripped, whitespace removed.
ClaimedValue(tail) ==
    SelectSeq(LStripSet(RStripSet(Strip(tail), {"."}), {"+"}),
              LAMBDA c : c \notin Whitespace)

\* C14 as stated (ExtractSpec): without the marker extract_answer gives
\* None; with it, the text after the marker with the trailing period and
\* the leading plus sign stripped and the whitespace removed, or None when
\* that is empty.
C14_RemovesWhitespace ==
    call.op = "returned" =>
        LET t == call.arg.text
        IN  IF ~HasMarker(t)
            THEN call.out.none
            ELSE LET v == ClaimedValue(TailOf(t))
                 IN  call.out = IF v = <<>> THEN NoneStr ELSE Some(v)

\* C14 as amended (ExtractSpec): without the marker extract_answer gives
\* None.  With it, the text after the last marker is
\*     whitespace* '+'* core '.'* whitespace*
\* where core does not begin with '+' nor end with '.', begins with a
\* non-whitespace character unless a '+' was stripped before it and ends
\* with one unless a '.' was stripped after it; the value is core with its
\* spaces removed, every other character (newlines too) kept, and the
\* result is None when the value is empty.
C14_RemovesSpacesOnly ==
    call.op = "returned" =>
        LET t == call.arg.text
        IN  IF ~HasMarker(t)
            THEN call.out.none
            ELSE LET tail == TailOf(t)
                     n == Len(tail)
                 IN  \E p, a1, b, d \in 0..n :
                         /\ p <= a1 /\ a1 <= b /\ b <= d
                         /\ AllIn(tail, 1, p, Whitespace)
                         /\ AllIn(tail, p + 1, a1, {"+"})
                         /\ AllIn(tail, b + 1, d, {"."})
                         /\ AllIn(tail, d + 1, n, Whitespace)
                         /\ LET core == [j \in 1..(b - a1) |-> tail[a1 + j]]
                                v == SelectSeq(core, LAMBDA c : c # " ")
                            IN  /\ core # <<>> =>
                                       /\ core[1] # "+"
                                       /\ core[Len(core)] # "."
                                       /\ p = a1 => core[1] \notin Whitespace
                                       /\ b = d => core[Len(core)] \notin Whitespace
                                /\ call.out = IF v = <<>> THEN NoneStr ELSE Some(v)

\* extract_answer has returned a value that keeps a newline between two
\* characters.
C14_Witness ==
    /\ call.op = "returned"
    /\ call.arg.text = <<MARKER, "4", NL, "4">>
    /\ call.out = Some(<<"4", NL, "4">>)

\* The file holds exactly the current answers, pending slots as "".
FileInSync ==
    /\ file.state = "written"
    /\ Len(file.entries) = total
    /\ \A i \in 1..total :
           file.entries[i] = IF Filled(i) THEN answers[i] ELSE Dict(<<>>)

\* C15 (Spec): a slot write is followed by a write of the whole file before
\* any other slot is written: outside the two steps between a slot write
\* and its file write, once a slot is filled the file holds exactly the
\* current answers (before that there is no file); a slot is written only
\* when the file holds all earlier writes; and for total >= 1 the file at
\* the return is the list returned.
C15_WriteThenPersist ==
    /\ [](/\ (schedPc \notin {"save_acquire", "save_write"} /\ FilledCount > 0)
                 => FileInSync
          /\ FilledCount = 0 => file.state = "absent"
          /\ (Returned /\ total >= 1) => (FileInSync /\ file.entries = result))
    /\ [][answers' # answers =>
              /\ FilledCount > 0 => FileInSync
              /\ schedPc' = "save_acquire"]_vars
    /\ [][(schedPc = "save_write" /\ schedPc' # schedPc) =>
              /\ file'.entries = [i \in 1..total |->
                                     IF Filled(i) THEN answers[i] ELSE Dict(<<>>)]
              /\ schedPc' = "save_release"]_vars

\* Between two completions of the second chunk the file holds the two
\* answers of the first chunk, the one answer of the second and one "".
C15_Witness ==
    /\ schedPc = "wait"
    /\ total = 4
    /\ FilledCount = 3
    /\ file.entries = <<Dict(<<"1">>), Dict(<<"2">>), Dict(<<>>), Dict(<<"4">>)>>
    /\ ~Filled(3)

\* The scheduler's step from a state between a slot write and the end of
\* its progress report: acquire, write, release, report, back to the loop.
HandlingStep ==
    \/ schedPc' = schedPc /\ cur' = cur
    \/ schedPc = "save_acquire" /\ schedPc' = "save_write" /\ cur' = cur
    \/ schedPc = "save_write" /\ schedPc' = "save_release" /\ cur' = cur
    \/ schedPc = "save_release" /\ schedPc' = "progress" /\ cur' = cur
    \/ schedPc = "progress" /\ schedPc' = "wait" /\ Len(log') = Len(log) + 1

\* The step changes the slot of the completion being handled and no other.
OwnSlotWrite ==
    /\ schedPc \in {"result", "except"}
    /\ cur \in Chunk
    /\ \A j \in 1..total : j # cur => answers'[j] = answers[j]
    /\ cur' = cur
    /\ schedPc' = "save_acquire"

\* C16 (Spec): slot writes do not interleave.  A step that changes answers
\* changes the slot of the completion being handled and no other, and opens
\* that completion's save; from there to the end of its progress report the
\* scheduler goes acquire, write, release, report and back to the loop,
\* answers does not change and the completion being handled stays the same,
\* in whichever order the tasks of the chunk complete.
C16_NoInterleavedSlotWrites ==
    /\ [][answers' # answers => OwnSlotWrite]_vars
    /\ [][(schedPc \in AfterSlotWrite) =>
              (answers' = answers /\ Filled(cur) /\ HandlingStep)]_vars

\* The second task of a chunk completed first and its slot is being saved
\* while the first task is done, not yet handled, its slot still pending.
C16_Witness ==
    /\ schedPc = "save_write"
    /\ cur = 2
    /\ Filled(2)
    /\ Done(futures[1])
    /\ ~futures[1].yielded
    /\ answers[1] = None

\* The scheduler is inside the body of the chunk loop.
InChunk == schedPc \notin {"loop", "returned"}

\* The task of index i moves one step of unsubmitted -> dispatched
\* (pending) -> running (ask, sleep) -> completed (finished, raised).
TaskMoves(i) ==
    LET a == futures[i].pc
        b == futures'[i].pc
    IN  \/ a = b
        \/ a = "unsubmitted" /\ b = "pending"
        \/ a = "pending" /\ b = "ask"
        \/ a = "ask" /\ b \in {"sleep", "finished", "raised"}
        \/ a = "sleep" /\ b = "ask"

\* The task of index i is dispatched now: by the scheduler, in its chunk,
\* after every question before it, with the text of question i.
Dispatched(i) ==
    /\ schedPc = "submit"
    /\ i \in Chunk
    /\ \A j \in 1..(i - 1) : futures[j].pc # "unsubmitted"
    /\ \A j \in (i + 1)..total : futures[j].pc = "unsubmitted"
    /\ futures'[i].arg = questions[i].input

\* C17 (Spec): the chunks are the consecutive ranges of at most BATCH_SIZE
\* indices: while a chunk is processed batch_start is a multiple of
\* BATCH_SIZE below total and the chunk is exactly the set of indices i
\* with ChunkOf(i) = batch_start / BATCH_SIZE, so every index is in exactly
\* one chunk; tasks are dispatched in the original order, each in its own
\* chunk; a task only moves dispatched -> running -> completed and a
\* completed task never changes again; at the return every index has had
\* its one task, completed.
C17_ChunksPartitionAndTasksRunOnce ==
    /\ [](InChunk =>
              /\ batch_start % BATCH_SIZE = 0
              /\ batch_start < total
              /\ Chunk # {}
              /\ Cardinality(Chunk) <= BATCH_SIZE
              /\ Chunk = {i \in 1..total :
                              ChunkOf(i) = batch_start \div BATCH_SIZE})
    /\ [](\A i \in 1..total :
              (futures[i].pc # "unsubmitted") =>
                  (ChunkOf(i) * BATCH_SIZE <= batch_start))
    /\ [](Returned => \A i \in 1..total : Done(futures[i]) /\ futures[i].yielded)
    /\ [][\A i \in 1..total :
              /\ TaskMoves(i)
              /\ (futures[i].pc = "unsubmitted" /\ futures'[i].pc = "pending")
                     => Dispatched(i)
              /\ Done(futures[i]) =>
                     /\ futures'[i].pc = futures[i].pc
                     /\ futures'[i].result = futures[i].result
                     /\ futures'[i].arg = futures[i].arg]_vars

\* Three questions: the second chunk holds the third question alone, its
\* task is in a backoff sleep and the two tasks of the first chunk are done.
C17_Witness ==
    /\ total = 3
    /\ schedPc = "wait"
    /\ batch_start = BATCH_SIZE
    /\ batch_end = 3
    /\ Cardinality(Chunk) = 1
    /\ futures[3].pc = "sleep"
    /\ Done(futures[1])
    /\ Done(futures[2])

\* The step is the scheduler's slot write for the completion it handles.
CompletionSlotWrite ==
    /\ schedPc \in {"result", "except"}
    /\ cur \in Chunk
    /\ Done(futures[cur])
    /\ futures[cur].yielded
    /\ \A j \in 1..total : j # cur => answers'[j] = answers[j]
    /\ futures' = futures
    /\ file' = file

\* The step is the scheduler's file write that follows that slot write.
CompletionFileWrite ==
    /\ schedPc = "save_write"
    /\ cur \in Chunk
    /\ Filled(cur)
    /\ futures[cur].yielded
    /\ futures' = futures
    /\ answers' = answers

\* C18 (Spec): a step of a worker task (a start, an attempt with its network
\* call, the end of a backoff sleep), and any step that changes a task at
\* all, leaves answers and the file unchanged; answers changes only by the
\* scheduler's slot write for the completion it is handling, at that task's
\* own index, and the file only by the file write that follows it.
C18_WorkersLeaveSharedStateAlone ==
    /\ [][futures' # futures => (answers' = answers /\ file' = file)]_vars
    /\ [][answers' # answers => CompletionSlotWrite]_vars
    /\ [][file' # file => CompletionFileWrite]_vars

\* A task has failed an attempt, slept and is in its next attempt, while
\* the slot of the other task of its chunk is filled and on file; its own
\* slot is pending.
C18_Witness ==
    /\ total >= 2
    /\ futures[2].pc = "ask"
    /\ futures[2].attempts >= 1
    /\ Len(futures[2].sleeps) >= 1
    /\ Filled(1)
    /\ ~Filled(2)
    /\ file.state = "written"
    /\ file.entries[2] = Dict(<<>>)

\* C19 (Spec): while the chunk starting at batch_start is processed, every
\* slot before it is filled, every slot after it is pending and only slots
\* of the chunk change; between two chunks the slots up to batch_start are
\* filled and the others pending; at the return no slot is pending.
C19_ChunkFrontier ==
    /\ [](InChunk =>
              \A i \in 1..total :
                  /\ i <= batch_start => Filled(i)
                  /\ i > batch_start + BATCH_SIZE => ~Filled(i)
                  /\ Filled(i) => i <= batch_end)
    /\ [](schedPc = "loop" =>
              \A i \in 1..total : Filled(i) <=> i <= batch_start)
    /\ [](Returned => \A i \in 1..total : Filled(i) /\ ~result[i].none)
    /\ [][\A i \in 1..total :
              answers'[i] # answers[i] =>
                  /\ InChunk
                  /\ i > batch_start
                  /\ i <= Min(batch_start + BATCH_SIZE, total)
                  /\ batch_start' = batch_start]_vars

\* Four questions, first chunk: the second slot is filled, the first is
\* still pending and so are the slots after the chunk.
C19_Witness ==
    /\ total = 4
    /\ schedPc = "wait"
    /\ batch_start = 0
    /\ Filled(2)
    /\ ~Filled(1)
    /\ ~Filled(3)
    /\ ~Filled(4)

\* The step reports one more completion and keeps the earlier reports.
OneMoreReport ==
    /\ Len(log') = Len(log) + 1
    /\ \A k \in 1..Len(log) : log'[k] = log[k]
    /\ log'[Len(log')].info.completed = Len(log) + 1
    /\ \A k \in 1..Len(log) :
           log[k].info.completed < log'[Len(log')].info.completed

\* C20 (Spec): the k-th completion reported carries completed = k and
\* remaining = total - k, so the counts run 1, 2, ..., total, each one more
\* than the one before; remaining is 0 at the report number total and at no
\* other; reports are only added, one at a time, each for another index;
\* and at the return there are exactly total reports.
C20_ProgressCountsByOne ==
    /\ [](\A k \in 1..Len(log) :
              /\ k <= total
              /\ log[k].info.completed = k
              /\ log[k].info.remaining = total - k
              /\ log[k].info.remaining = 0 <=> k = total
              /\ \A j \in 1..Len(log) : j # k => log[j].idx # log[k].idx)
    /\ [](Returned => Len(log) = total)
    /\ [][log' # log => OneMoreReport]_vars

\* Four questions, all reported: the second question was reported first,
\* the fourth before the third, and the last report leaves none remaining.
C20_Witness ==
    /\ total = 4
    /\ Len(log) = 4
    /\ log[1].idx = 2
    /\ log[3].idx = 4
    /\ log[4].info.completed = 4
    /\ log[4].info.remaining = 0

====
